---- MODULE Spec2Model ----
\* colb: a colcon wrapper.  The model covers the token pipeline
\* (ColconInvocation -> BuildVerb / BasicVerb -> ConfiguredBuild -> run) and the
\* sequencing of external invocations in main() for the verbs Build and Test.
EXTENDS Integers, Sequences, FiniteSets, TLC

VARIABLES
    cli,                   \* Cli: {workspace (Option, as typed), package (Option), force}
    env,                   \* the process's surroundings: {cwd, manifest, build, files}
    files,                 \* the .colb.toml of every directory (Option)
    cfg_file_path,         \* directory of Path::new(&ws).join(".colb.toml") (Option)
    ws_str,                \* the canonicalized workspace string
    init_io,               \* Verbs::Init: "none", or how File::create / write_all ended
    search,                \* find_upwards on its own: the loop's state
    verb,                  \* cli.verb: "Init", "Build" or "Test"
    package,               \* the resolved package name
    test,                  \* Option<String>: <<>> or <<name>>, a name is a sequence of characters
    skip_dependencies,     \* Verbs::Build.skip_dependencies
    skip_rebuild,          \* Verbs::Test.skip_rebuild
    rebuild_dependencies,  \* Verbs::Test.rebuild_dependencies
    ws,                    \* the workspace string handed to the invocations
    config,                \* Config {upstream, package}
    pc,                    \* position of main()
    invocations,           \* external commands issued so far, each with its outcome
    exit_code,             \* Option<i32>: <<>> while running, <<c>> once the process ended
    stage,                 \* pipeline: type of the builder value currently held
    builder,               \* pipeline: the builder value {args, workspace}
    inputs,                \* pipeline: the arguments given to the stages so far
    command                \* pipeline: the command handed to the OS by run (Option)

vars == <<cli, env, files, cfg_file_path, ws_str, init_io, search, verb, package, test, skip_dependencies, skip_rebuild, rebuild_dependencies,
          ws, config, pc, invocations, exit_code, stage, builder, inputs, command>>

mainVars == <<cli, env, files, cfg_file_path, ws_str, init_io, verb, package, test, skip_dependencies, skip_rebuild, rebuild_dependencies,
              ws, config, pc, invocations, exit_code>>

pipeVars == <<stage, builder, inputs, command>>

findVars == <<search>>

-----------------------------------------------------------------------------
\* Bounds of the model

\* child exit codes range over 0..MaxExitCode
MaxExitCode == 2
\* test names have 1..MaxNameLen characters
MaxNameLen == 3
\* profiles carry at most MaxMixins mixins
MaxMixins == 2
\* profiles carry at most MaxCmakeArgs extra cmake arguments
MaxCmakeArgs == 2

-----------------------------------------------------------------------------
\* Option<T> is a sequence of length 0 (None) or 1 (Some)

None == <<>>

Some(x) == <<x>>

\* String of a sequence of one-character strings
RECURSIVE Str(_)
Str(cs) == IF cs = <<>> THEN "" ELSE Head(cs) \o Str(Tail(cs))

-----------------------------------------------------------------------------
\* ArgStack

ArgStack_default == <<>>

ArgStack_arg(self, a) == Append(self, a)

ArgStack_args(self, as) == self \o as

-----------------------------------------------------------------------------
\* Event handlers, build type

handler_str(name, enabled) == name \o (IF enabled THEN "+" ELSE "-")

cmake_arg(name, value) == "-D" \o name \o "=" \o value

EventHandlers_default ==
    [desktop_notification |-> FALSE, console_cohesion |-> FALSE,
     summary |-> TRUE, console_start_end |-> TRUE]

EventHandlers_silent ==
    [desktop_notification |-> FALSE, console_cohesion |-> FALSE,
     summary |-> FALSE, console_start_end |-> FALSE]

EventHandlers_compile_logs_only ==
    [EventHandlers_silent EXCEPT !.console_cohesion = TRUE]

EventHandlers_apply(self, args) ==
    LET a0 == ArgStack_arg(args, "--event-handlers")
        a1 == ArgStack_arg(a0, handler_str("summary", self.summary))
        a2 == ArgStack_arg(a1, handler_str("console_start_end", self.console_start_end))
        a3 == ArgStack_arg(a2, handler_str("console_cohesion", self.console_cohesion))
    IN  ArgStack_arg(a3, handler_str("desktop_notification", self.desktop_notification))

BuildTypes == {"Debug", "Release", "RelWithDebInfo"}

BuildType_apply(self, cmd) ==
    LET a0 == ArgStack_arg(cmd, "--cmake-args")
    IN  ArgStack_arg(a0, "-DCMAKE_BUILD_TYPE=" \o self)

-----------------------------------------------------------------------------
\* Configuration profiles

DEFAULT_MIXINS == <<"compile-commands", "ninja", "mold", "ccache">>

BuildConfiguration_upstream ==
    [mixins |-> DEFAULT_MIXINS, cmake_args |-> <<>>, build_type |-> "Debug",
     parallel_jobs |-> Some(8), event_handlers |-> EventHandlers_default,
     build_tests |-> FALSE]

BuildConfiguration_active ==
    [mixins |-> DEFAULT_MIXINS, cmake_args |-> <<>>, build_type |-> "Debug",
     parallel_jobs |-> Some(8), event_handlers |-> EventHandlers_compile_logs_only,
     build_tests |-> TRUE]

Config_default ==
    [upstream |-> BuildConfiguration_upstream, package |-> BuildConfiguration_active]

BuildOutput_default == [symlink |-> FALSE, merge |-> FALSE]

-----------------------------------------------------------------------------
\* The staged builder.  Every stage value is {args, workspace}.

ColconInvocation_new(workspace, log) ==
    LET a0 == ArgStack_arg(ArgStack_default, "--log-base")
        a1 == IF log THEN ArgStack_arg(a0, "log") ELSE ArgStack_arg(a0, "/dev/null")
    IN  [args |-> a1, workspace |-> workspace]

ColconInvocation_build(self, base_setup) ==
    LET a0 == ArgStack_arg(self.args, "build")
        a1 == ArgStack_args(a0, <<"--build-base", "build", "--install-base", "install">>)
        a2 == IF base_setup.symlink THEN ArgStack_arg(a1, "--symlink-install") ELSE a1
        a3 == IF base_setup.merge THEN ArgStack_arg(a2, "--merge-install") ELSE a2
    IN  [args |-> a3, workspace |-> self.workspace]

\* config is a TestConfiguration {package, event_handlers}
ColconInvocation_test(self, cfg) ==
    LET a0 == ArgStack_arg(self.args, "test")
        a1 == ArgStack_arg(a0, "--event-handlers")
        a2 == EventHandlers_apply(cfg.event_handlers, a1)
        a3 == ArgStack_args(a2, <<"--ctest-args", "--output-on-failure">>)
        a4 == ArgStack_args(a3, <<"--packages-select", cfg.package>>)
    IN  [args |-> a4, workspace |-> self.workspace]

\* config is a TestResultConfig {package, verbose, all}
ColconInvocation_test_result(self, cfg) ==
    LET a0 == ArgStack_arg(self.args, "test-result")
        a1 == ArgStack_args(a0, <<"--test-result-base", "build/" \o cfg.package>>)
        a2 == IF cfg.verbose THEN ArgStack_arg(a1, "--verbose") ELSE a1
        a3 == IF cfg.all THEN ArgStack_arg(a2, "--all") ELSE a2
    IN  [args |-> a3, workspace |-> self.workspace]

\* configure that applies the build type before the extra cmake arguments
BuildVerb_configure_type_before_extra(self, cfg) ==
    LET a0 == IF cfg.parallel_jobs # None
              THEN ArgStack_args(self.args, <<"--executor", "parallel", "--parallel-workers",
                                              ToString(cfg.parallel_jobs[1])>>)
              ELSE self.args
        a1 == EventHandlers_apply(cfg.event_handlers, a0)
        a2 == IF cfg.mixins # <<>>
              THEN ArgStack_args(ArgStack_arg(a1, "--mixin"), cfg.mixins)
              ELSE a1
        a3 == ArgStack_arg(a2, "--cmake-args")
        a4 == ArgStack_arg(a3, cmake_arg("BUILD_TESTING",
                                         IF cfg.build_tests THEN "ON" ELSE "OFF"))
        a5 == BuildType_apply(cfg.build_type, a4)
    IN  [args |-> ArgStack_args(a5, cfg.cmake_args), workspace |-> self.workspace]

\* config is a BuildConfiguration
BuildVerb_configure(self, cfg) ==
    LET a0 == IF cfg.parallel_jobs # None
              THEN ArgStack_args(self.args, <<"--executor", "parallel", "--parallel-workers",
                                              ToString(cfg.parallel_jobs[1])>>)
              ELSE self.args
        a1 == EventHandlers_apply(cfg.event_handlers, a0)
        a2 == IF cfg.mixins # <<>>
              THEN ArgStack_args(ArgStack_arg(a1, "--mixin"), cfg.mixins)
              ELSE a1
        a3 == ArgStack_arg(a2, "--cmake-args")
        a4 == ArgStack_arg(a3, cmake_arg("BUILD_TESTING",
                                         IF cfg.build_tests THEN "ON" ELSE "OFF"))
        a5 == ArgStack_args(a4, cfg.cmake_args)
    IN  [args |-> BuildType_apply(cfg.build_type, a5), workspace |-> self.workspace]

\* What
DependenciesFor(p) == [kind |-> "DependenciesFor", package |-> p]

ThisPackage(p) == [kind |-> "ThisPackage", package |-> p]

\* A command as handed to the OS: program, current_dir (Option), argument list, and
\* for ctest the characters of the -R argument.

\* run that puts the package selection in front of the configured tokens
ConfiguredBuild_run_selection_first(self, what) ==
    [program |-> "colcon",
     cwd     |-> Some(self.workspace),
     args    |-> IF what.kind = "DependenciesFor"
                 THEN <<"--packages-up-to", what.package,
                        "--packages-skip", what.package>> \o self.args
                 ELSE <<"--packages-select", what.package>> \o self.args,
     regex   |-> <<>>]

ConfiguredBuild_run(self, what) ==
    [program |-> "colcon",
     cwd     |-> Some(self.workspace),
     args    |-> IF what.kind = "DependenciesFor"
                 THEN self.args \o <<"--packages-up-to", what.package,
                                     "--packages-skip", what.package>>
                 ELSE self.args \o <<"--packages-select", what.package>>,
     regex   |-> <<>>]

BasicVerb_run(self) ==
    [program |-> "colcon", cwd |-> Some(self.workspace), args |-> self.args,
     regex |-> <<>>]

ninja_build_target(workspace, pkg, target) ==
    [program |-> "ninja", cwd |-> None,
     args |-> <<"-C", workspace \o "/build/" \o pkg, Str(target)>>,
     regex |-> <<>>]

\* format!("^{target}$")
single_test_regex(target) == <<"^">> \o target \o <<"$">>

run_single_ctest(workspace, pkg, target) ==
    [program |-> "ctest", cwd |-> None,
     args |-> <<"--test-dir", workspace \o "/build/" \o pkg, "--output-on-failure",
                "-R", Str(single_test_regex(target))>>,
     regex |-> single_test_regex(target)]

-----------------------------------------------------------------------------
\* Paths and the directory tree. A canonical path is the sequence of its components
\* from the root (<<>>); a path as typed is {abs, comps} and may hold "." and "..".

Dirs == {<<>>, <<"ws">>, <<"ws", "src">>, <<"ws", "src", "foo">>}

\* /link is a symbolic link to /ws
SymlinkAt == <<"link">>

SymlinkTarget == <<"ws">>

AbsPath(comps) == [abs |-> TRUE, comps |-> comps]

RelPath(comps) == [abs |-> FALSE, comps |-> comps]

RECURSIVE JoinComps(_)
JoinComps(comps) ==
    IF comps = <<>> THEN ""
    ELSE IF Len(comps) = 1 THEN comps[1]
    ELSE comps[1] \o "/" \o JoinComps(Tail(comps))

\* Path::to_string_lossy of a path as typed
to_string_lossy(p) == IF p.abs THEN "/" \o JoinComps(p.comps) ELSE JoinComps(p.comps)

\* a parent that skips one directory
parent_skips_one(p) == IF Len(p) <= 1 THEN None ELSE Some(SubSeq(p, 1, Len(p) - 2))

\* Path::parent of a canonical path
parent(p) == IF p = <<>> THEN None ELSE Some(SubSeq(p, 1, Len(p) - 1))

\* Path::file_name of a canonical path
file_name(p) == IF p = <<>> THEN None ELSE Some(p[Len(p)])

\* Path::canonicalize: the canonical path of p read from directory cwd, None when a
\* component does not exist
RECURSIVE canonicalize_from(_, _)
canonicalize_from(at, comps) ==
    IF comps = <<>> THEN Some(at)
    ELSE LET c    == Head(comps)
             next == IF c = "." THEN at
                     ELSE IF c = ".." THEN (IF at = <<>> THEN at ELSE SubSeq(at, 1, Len(at) - 1))
                     ELSE IF Append(at, c) = SymlinkAt THEN SymlinkTarget
                     ELSE Append(at, c)
         IN  IF next \in Dirs THEN canonicalize_from(next, Tail(comps)) ELSE None

canonicalize(p, cwd) == canonicalize_from(IF p.abs THEN <<>> ELSE cwd, p.comps)

\* table[<<dir, m>>] is what candidate.try_exists() gives for dir/m:
\* "present" (Ok(true)), "absent" (Ok(false)) or "error" (Err)
MarkerStatus == {"absent", "present", "error"}

\* a failed existence test taken for a marker
contains_marker_error_is_present(table, path, markers) ==
    \E i \in 1..Len(markers) : table[<<path, markers[i]>>] # "absent"

contains_marker(table, path, markers) ==
    \E i \in 1..Len(markers) : table[<<path, markers[i]>>] = "present"

\* find_upwards from an already canonicalized directory (the while loop)
RECURSIVE find_upwards_loop(_, _, _)
find_upwards_loop(table, cwd, markers) ==
    IF cwd = None THEN None
    ELSE IF contains_marker(table, cwd[1], markers) THEN Some(cwd[1])
    ELSE find_upwards_loop(table, parent(cwd[1]), markers)

\* find_upwards: start is env::current_dir(), None when it cannot be read
find_upwards(table, start, markers) ==
    find_upwards_loop(table,
                      IF start = None THEN None ELSE canonicalize(start[1], <<>>),
                      markers)

PACKAGE_MARKERS == <<"package.xml">>

COLB_CONFIG_FILENAME == ".colb.toml"

WORKSPACE_MARKERS == <<"build", COLB_CONFIG_FILENAME>>

-----------------------------------------------------------------------------
\* What `ctest -R <regex>` selects. ctest runs every registered test whose name the
\* regular expression finds a match in. Of the regex syntax the model has the
\* anchors ^ and $, the wildcard . and literal characters.

RECURSIVE regex_match_here(_, _)
regex_match_here(re, s) ==
    IF re = <<>> THEN TRUE
    ELSE IF re = <<"$">> THEN s = <<>>
    ELSE IF s # <<>> /\ (Head(re) = "." \/ Head(re) = Head(s))
    THEN regex_match_here(Tail(re), Tail(s))
    ELSE FALSE

regex_find(re, s) ==
    IF re # <<>> /\ Head(re) = "^"
    THEN regex_match_here(Tail(re), s)
    ELSE \E i \in 1..(Len(s) + 1) : regex_match_here(re, SubSeq(s, i, Len(s)))

-----------------------------------------------------------------------------
\* The configuration file. Its text is a sequence of lines {table, key, value}; a
\* value is {type, text, items}. Serialization writes every field as text and
\* leaves out a None; parsing reads the text back and fails (None) on a missing or
\* ill-typed field.

\* largest integer the parser is asked to read
MaxParsedInt == 16

TomlValue(type, text, items) == [type |-> type, text |-> text, items |-> items]

TomlLine(table, key, value) == [table |-> table, key |-> key, value |-> value]

toml_bool(b) == TomlValue("boolean", IF b THEN "true" ELSE "false", <<>>)

toml_string(x) == TomlValue("string", x, <<>>)

toml_integer(n) == TomlValue("integer", ToString(n), <<>>)

toml_array(xs) == TomlValue("array", "", xs)

serialize_event_handlers(table, eh) ==
    <<TomlLine(table, "desktop_notification", toml_bool(eh.desktop_notification)),
      TomlLine(table, "console_cohesion", toml_bool(eh.console_cohesion)),
      TomlLine(table, "summary", toml_bool(eh.summary)),
      TomlLine(table, "console_start_end", toml_bool(eh.console_start_end))>>

\* build_tests written as the negation of the flag
serialize_build_configuration_negated_tests(table, bc) ==
    <<TomlLine(table, "mixins", toml_array(bc.mixins)),
      TomlLine(table, "cmake_args", toml_array(bc.cmake_args)),
      TomlLine(table, "build_type", toml_string(bc.build_type))>>
    \o (IF bc.parallel_jobs # None
        THEN <<TomlLine(table, "parallel_jobs", toml_integer(bc.parallel_jobs[1]))>>
        ELSE <<>>)
    \o <<TomlLine(table, "build_tests", toml_bool(~bc.build_tests))>>
    \o serialize_event_handlers(table \o ".event_handlers", bc.event_handlers)

serialize_build_configuration(table, bc) ==
    <<TomlLine(table, "mixins", toml_array(bc.mixins)),
      TomlLine(table, "cmake_args", toml_array(bc.cmake_args)),
      TomlLine(table, "build_type", toml_string(bc.build_type))>>
    \o (IF bc.parallel_jobs # None
        THEN <<TomlLine(table, "parallel_jobs", toml_integer(bc.parallel_jobs[1]))>>
        ELSE <<>>)
    \o <<TomlLine(table, "build_tests", toml_bool(bc.build_tests))>>
    \o serialize_event_handlers(table \o ".event_handlers", bc.event_handlers)

\* toml::to_string_pretty(&Config)
toml_to_string_pretty(cfg) ==
    serialize_build_configuration("upstream", cfg.upstream)
    \o serialize_build_configuration("package", cfg.package)

\* the values the text gives for table.key
TomlLookup(data, table, key) ==
    {data[i].value : i \in {j \in 1..Len(data) : data[j].table = table /\ data[j].key = key}}

\* a field of the given type: None when missing, given twice or of another type
TomlField(data, table, key, type) ==
    LET vs == TomlLookup(data, table, key) IN
    IF Cardinality(vs) = 1 /\ (CHOOSE v \in vs : TRUE).type = type
    THEN Some(CHOOSE v \in vs : TRUE)
    ELSE None

parse_bool(v) ==
    IF v.text = "true" THEN Some(TRUE) ELSE IF v.text = "false" THEN Some(FALSE) ELSE None

parse_u32(v) ==
    IF \E n \in 0..MaxParsedInt : ToString(n) = v.text
    THEN Some(CHOOSE n \in 0..MaxParsedInt : ToString(n) = v.text)
    ELSE None

parse_build_type(v) == IF v.text \in BuildTypes THEN Some(v.text) ELSE None

deserialize_event_handlers(data, table) ==
    LET dn == TomlField(data, table, "desktop_notification", "boolean")
        cc == TomlField(data, table, "console_cohesion", "boolean")
        su == TomlField(data, table, "summary", "boolean")
        cs == TomlField(data, table, "console_start_end", "boolean")
    IN  IF dn = None \/ cc = None \/ su = None \/ cs = None THEN None
        ELSE IF \E f \in {dn, cc, su, cs} : parse_bool(f[1]) = None THEN None
        ELSE Some([desktop_notification |-> parse_bool(dn[1])[1],
                   console_cohesion |-> parse_bool(cc[1])[1],
                   summary |-> parse_bool(su[1])[1],
                   console_start_end |-> parse_bool(cs[1])[1]])

deserialize_build_configuration(data, table) ==
    LET mx == TomlField(data, table, "mixins", "array")
        ca == TomlField(data, table, "cmake_args", "array")
        bt == TomlField(data, table, "build_type", "string")
        pj == TomlLookup(data, table, "parallel_jobs")
        pv == TomlField(data, table, "parallel_jobs", "integer")
        tb == TomlField(data, table, "build_tests", "boolean")
        eh == deserialize_event_handlers(data, table \o ".event_handlers")
    IN  IF mx = None \/ ca = None \/ bt = None \/ tb = None \/ eh = None THEN None
        ELSE IF parse_build_type(bt[1]) = None \/ parse_bool(tb[1]) = None THEN None
        ELSE IF pj # {} /\ (pv = None \/ (pv # None /\ parse_u32(pv[1]) = None)) THEN None
        ELSE Some([mixins |-> mx[1].items,
                   cmake_args |-> ca[1].items,
                   build_type |-> parse_build_type(bt[1])[1],
                   parallel_jobs |-> IF pj = {} THEN None ELSE Some(parse_u32(pv[1])[1]),
                   event_handlers |-> eh[1],
                   build_tests |-> parse_bool(tb[1])[1]])

\* toml::from_str::<Config>: None is a parse error
toml_from_str(data) ==
    LET up == deserialize_build_configuration(data, "upstream")
        pk == deserialize_build_configuration(data, "package")
    IN  IF \E i \in 1..Len(data) : data[i].value.type = "invalid" THEN None
        ELSE IF up = None \/ pk = None THEN None
        ELSE Some([upstream |-> up[1], package |-> pk[1]])

\* a file is {readable, data}; files[dir] is the .colb.toml of dir, None when absent
ConfigFile(readable, data) == [readable |-> readable, data |-> data]

\* text that is no TOML document
GARBAGE_TEXT == <<TomlLine("", "", TomlValue("invalid", "", <<>>))>>

\* loading that falls back to the defaults when the file cannot be read or parsed
load_config_ignores_errors(fl, path) ==
    IF path = None \/ fl[path[1]] = None
    THEN [kind |-> "default", config |-> Config_default]
    ELSE LET f == fl[path[1]][1] IN
         IF ~f.readable \/ toml_from_str(f.data) = None
         THEN [kind |-> "default", config |-> Config_default]
         ELSE [kind |-> "loaded", config |-> toml_from_str(f.data)[1]]

\* path is the directory that holds the file, None when Path::new(&ws) names no
\* directory. The result of lines 515-530: the configuration, or the error exit.
load_config(fl, path) ==
    IF path = None \/ fl[path[1]] = None
    THEN [kind |-> "default", config |-> Config_default]
    ELSE LET f == fl[path[1]][1] IN
         IF ~f.readable THEN [kind |-> "file_err", config |-> Config_default]
         ELSE IF toml_from_str(f.data) = None
         THEN [kind |-> "parse_err", config |-> Config_default]
         ELSE [kind |-> "loaded", config |-> toml_from_str(f.data)[1]]

-----------------------------------------------------------------------------
\* Outcome of Command::status(): the launch may fail (Err), and a launched child
\* ends with ExitStatus::code() = Some(n) or None (killed by a signal).

ExitCodes == 0..MaxExitCode

Outcomes ==
    {[launched |-> FALSE, code |-> None]}
    \cup {[launched |-> TRUE, code |-> c] : c \in {None} \cup {Some(n) : n \in ExitCodes}}

\* exit status of a Rust process that panicked (the .expect() on Command::status())
PANIC_EXIT_CODE == 101

\* std::process::exit(-1)
EXIT_MINUS_ONE == -1

\* exit_on_error that lets a non-zero code pass
exit_on_error_ignores_code(code) ==
    IF code # None THEN None ELSE Some(EXIT_MINUS_ONE)

\* exit_on_error: None when it returns, Some(c) when it calls std::process::exit(c)
exit_on_error(code) ==
    IF code = Some(0) THEN None
    ELSE IF code # None THEN Some(code[1])
    ELSE Some(EXIT_MINUS_ONE)

\* cmd.status().expect(..) followed by exit_on_error(status)
status_expect_then_exit_on_error(outcome) ==
    IF ~outcome.launched THEN Some(PANIC_EXIT_CODE) ELSE exit_on_error(outcome.code)

-----------------------------------------------------------------------------
\* The commands main() issues, one operator per call site

\* the dependency build configured from the package profile
build_dependencies_command_package_profile(cfg, workspace, pkg) ==
    ConfiguredBuild_run(
        BuildVerb_configure(
            ColconInvocation_build(ColconInvocation_new(workspace, FALSE), BuildOutput_default),
            cfg.package),
        DependenciesFor(pkg))

build_dependencies_command(cfg, workspace, pkg) ==
    ConfiguredBuild_run(
        BuildVerb_configure(
            ColconInvocation_build(ColconInvocation_new(workspace, FALSE), BuildOutput_default),
            cfg.upstream),
        DependenciesFor(pkg))

build_package_command(cfg, workspace, pkg) ==
    ConfiguredBuild_run(
        BuildVerb_configure(
            ColconInvocation_build(ColconInvocation_new(workspace, FALSE), BuildOutput_default),
            cfg.package),
        ThisPackage(pkg))

run_tests_command(workspace, pkg) ==
    BasicVerb_run(
        ColconInvocation_test(ColconInvocation_new(workspace, TRUE),
                              [package |-> pkg, event_handlers |-> EventHandlers_silent]))

test_results_command(workspace, pkg) ==
    BasicVerb_run(
        ColconInvocation_test_result(ColconInvocation_new(workspace, FALSE),
                                     [package |-> pkg, verbose |-> TRUE, all |-> TRUE]))

-----------------------------------------------------------------------------
\* Control flow of main(): the position reached after each step

\* Test that runs the whole suite whether or not a test name is given
after_run_entry_always_suite(t) == "test_run_all"

after_run_entry(t) == IF t # None THEN "test_run_single" ELSE "test_run_all"

after_rebuild_entry(t, skip) ==
    IF ~skip
    THEN (IF t # None THEN "test_build_target" ELSE "test_build_package")
    ELSE after_run_entry(t)

\* Test that goes from the dependency build straight to the rebuild step
after_test_dependencies_no_package_build(t, skip) == after_rebuild_entry(t, skip)

after_test_dependencies(t, skip) ==
    IF t # None THEN "test_deps_package" ELSE after_rebuild_entry(t, skip)

\* Test that builds the dependencies although the rebuild is skipped
test_entry_dependencies_despite_skip(t, skip, rebuild_deps) ==
    IF rebuild_deps THEN "test_deps" ELSE after_rebuild_entry(t, skip)

test_entry(t, skip, rebuild_deps) ==
    IF rebuild_deps /\ ~skip THEN "test_deps" ELSE after_rebuild_entry(t, skip)

\* Build that does not honour skip_dependencies
build_entry_always_dependencies(skip_deps) == "build_deps"

build_entry(skip_deps) == IF ~skip_deps THEN "build_deps" ELSE "build_package"

-----------------------------------------------------------------------------
\* Inputs

Packages == {"foo", "bar"}

Letters == {"a", "b"}

NameChars == Letters \cup {"."}

\* names of test targets: a letter followed by letters or dots
TestNames ==
    {n \in UNION {[1..k -> NameChars] : k \in 1..MaxNameLen} : n[1] \in Letters}

\* a configuration as a .colb.toml can hold it
Config_custom ==
    [upstream |-> [mixins |-> <<>>, cmake_args |-> <<"-DA=1">>, build_type |-> "Release",
                   parallel_jobs |-> None, event_handlers |-> EventHandlers_silent,
                   build_tests |-> TRUE],
     package  |-> [mixins |-> <<"ninja">>, cmake_args |-> <<"-DA=1", "-DB=2">>,
                   build_type |-> "RelWithDebInfo", parallel_jobs |-> Some(2),
                   event_handlers |-> EventHandlers_default, build_tests |-> FALSE]]

Configs == {Config_default, Config_custom}

NoInputs == [log |-> None, base_setup |-> None, config |-> None, what |-> None]

PipeIdle ==
    /\ stage = "none"
    /\ builder = [args |-> ArgStack_default, workspace |-> ""]
    /\ inputs = NoInputs
    /\ command = None

\* the workspaces a user types: none, /ws, ../.. and the symbolic link /link
CliWorkspaces ==
    {None, Some(AbsPath(<<"ws">>)), Some(RelPath(<<"..", "..">>)), Some(AbsPath(SymlinkAt))}

\* the .colb.toml files /ws starts with
InitialConfigFiles ==
    {None,
     Some(ConfigFile(TRUE, toml_to_string_pretty(Config_default))),
     Some(ConfigFile(TRUE, toml_to_string_pretty(Config_custom))),
     Some(ConfigFile(TRUE, GARBAGE_TEXT)),
     Some(ConfigFile(FALSE, toml_to_string_pretty(Config_default)))}

WS_DIR == <<"ws">>

PACKAGE_DIR == <<"ws", "src", "foo">>

MarkerNames == {"package.xml", "build", COLB_CONFIG_FILENAME}

\* what try_exists gives in the directory tree of a run
MainMarkerTable(e, fl) ==
    [x \in Dirs \X MarkerNames |->
        IF x[2] = "package.xml"
        THEN (IF e.manifest /\ x[1] = PACKAGE_DIR THEN "present" ELSE "absent")
        ELSE IF x[2] = "build"
        THEN (IF e.build /\ x[1] = WS_DIR THEN "present" ELSE "absent")
        ELSE (IF fl[x[1]] # None THEN "present" ELSE "absent")]

SearchIdle == [pc |-> "idle"]

MainIdle ==
    /\ ws = ""
    /\ ws_str = ""
    /\ cfg_file_path = None
    /\ init_io = "none"
    /\ package = ""
    /\ config = Config_default
    /\ invocations = <<>>
    /\ exit_code = None

Init ==
    /\ verb \in {"Init", "Build", "Test"}
    /\ cli \in [workspace : CliWorkspaces,
                package : {None, Some("bar")},
                force : BOOLEAN]
    /\ env \in [cwd : {PACKAGE_DIR, WS_DIR},
                manifest : BOOLEAN,
                build : BOOLEAN,
                files : {[d \in Dirs |-> IF d = WS_DIR THEN f ELSE None] :
                         f \in InitialConfigFiles}]
    /\ cli.package # None => ~env.manifest
    /\ verb # "Init" => ~cli.force
    /\ verb = "Init" => (cli.package = None /\ ~env.manifest)
    /\ files = env.files
    /\ IF verb = "Build"
       THEN /\ skip_dependencies \in BOOLEAN
            /\ test = None
            /\ skip_rebuild = FALSE
            /\ rebuild_dependencies = FALSE
       ELSE IF verb = "Test"
       THEN /\ skip_dependencies = FALSE
            /\ test \in {None} \cup {Some(n) : n \in TestNames}
            /\ skip_rebuild \in BOOLEAN
            /\ rebuild_dependencies \in BOOLEAN
       ELSE /\ skip_dependencies = FALSE
            /\ test = None
            /\ skip_rebuild = FALSE
            /\ rebuild_dependencies = FALSE
    /\ pc = "start"
    /\ MainIdle
    /\ search = SearchIdle
    /\ PipeIdle

-----------------------------------------------------------------------------
\* Steps of main()

CliFrame ==
    UNCHANGED <<cli, env, verb, test, skip_dependencies, skip_rebuild,
                rebuild_dependencies, search, pipeVars>>

Frame ==
    /\ CliFrame
    /\ UNCHANGED <<files, cfg_file_path, ws_str, init_io, package, ws, config>>

\* std::env::current_dir()
current_dir(e) == Some(AbsPath(e.cwd))

detect_workspace(table, start) ==
    LET n == find_upwards(table, start, WORKSPACE_MARKERS) IN
    IF n = None THEN None ELSE Some(AbsPath(n[1]))

\* package_or that falls back to the name of the current directory
package_or_current_directory(table, start, pkg) ==
    IF pkg # None THEN pkg
    ELSE IF start = None THEN None
    ELSE LET c == canonicalize(start[1], <<>>) IN
         IF c = None THEN None ELSE file_name(c[1])

package_or(table, start, pkg) ==
    IF pkg # None THEN pkg
    ELSE LET f == find_upwards(table, start, PACKAGE_MARKERS) IN
         IF f = None THEN None ELSE file_name(f[1])

\* cli.workspace.or_else(detect_workspace).unwrap_or(".")
workspace_or(table, start, workspace) ==
    IF workspace # None THEN workspace[1]
    ELSE LET d == detect_workspace(table, start) IN
         IF d # None THEN d[1] ELSE RelPath(<<".">>)

\* loading that writes the defaults to disk when there is no file
files_after_load_writes_defaults(fl, path) ==
    IF path # None /\ fl[path[1]] = None
    THEN [fl EXCEPT ![path[1]] = Some(ConfigFile(TRUE, toml_to_string_pretty(Config_default)))]
    ELSE fl

\* the files once the configuration is loaded: exists(), read_to_string and
\* Config::default() write nothing
files_after_load(fl, path) == fl

\* lines 504-530: resolve the workspace, load the configuration
ResolveWorkspaceAndLoadConfig ==
    /\ pc = "start"
    /\ LET raw    == workspace_or(MainMarkerTable(env, files), current_dir(env), cli.workspace)
           canon  == canonicalize(raw, env.cwd)
           loaded == load_config(files, canon)
       IN  /\ ws' = to_string_lossy(raw)
           /\ ws_str' = IF canon # None THEN to_string_lossy(AbsPath(canon[1]))
                        ELSE to_string_lossy(raw)
           /\ cfg_file_path' = canon
           /\ IF loaded.kind \in {"file_err", "parse_err"}
              THEN /\ pc' = "exited"
                   /\ exit_code' = Some(EXIT_MINUS_ONE)
                   /\ UNCHANGED config
              ELSE /\ pc' = "main"
                   /\ config' = loaded.config
                   /\ UNCHANGED exit_code
           /\ files' = files_after_load(files, canon)
    /\ UNCHANGED <<init_io, package, invocations>>
    /\ CliFrame

\* init that overwrites without asking
init_refuses_never(exists, force) == FALSE

\* cfg_file_path.exists() && !force
init_refuses(exists, force) == exists /\ ~force

\* Verbs::Init
VerbInit ==
    /\ pc = "main"
    /\ verb = "Init"
    /\ pc' = "exited"
    /\ IF init_refuses(cfg_file_path # None /\ files[cfg_file_path[1]] # None, cli.force)
       THEN /\ exit_code' = Some(EXIT_MINUS_ONE)
            /\ UNCHANGED <<files, init_io>>
       ELSE \E io \in {"ok", "create_err", "write_err"} :
            /\ cfg_file_path = None => io = "create_err"
            /\ init_io' = io
            /\ IF io = "create_err"
               THEN /\ exit_code' = Some(EXIT_MINUS_ONE)
                    /\ UNCHANGED files
               ELSE LET d   == cfg_file_path[1]
                        old == files[d]
                        rd  == IF old = None THEN TRUE ELSE old[1].readable
                    IN  IF io = "write_err"
                        THEN /\ files' = [files EXCEPT ![d] = Some(ConfigFile(rd, <<>>))]
                             /\ exit_code' = Some(EXIT_MINUS_ONE)
                        ELSE /\ files' = [files EXCEPT ![d] =
                                             Some(ConfigFile(rd, toml_to_string_pretty(Config_default)))]
                             /\ exit_code' = Some(0)
    /\ UNCHANGED <<cfg_file_path, ws_str, package, ws, config, invocations>>
    /\ CliFrame

\* issue cmd, wait for it, apply exit_on_error; next is where main() goes on
\* ("return" when main() ends after this step)
Issue(cmd, next) ==
    \E o \in Outcomes :
        LET e == status_expect_then_exit_on_error(o) IN
        /\ invocations' = Append(invocations, [cmd |-> cmd, outcome |-> o])
        /\ IF e # None
           THEN pc' = "exited" /\ exit_code' = e
           ELSE IF next = "return"
                THEN pc' = "exited" /\ exit_code' = Some(0)
                ELSE pc' = next /\ UNCHANGED exit_code
        /\ Frame

\* match &cli.verb
Dispatch ==
    /\ pc = "main"
    /\ verb \in {"Build", "Test"}
    /\ LET found == package_or(MainMarkerTable(env, files), current_dir(env), cli.package) IN
       IF found = None
       THEN /\ pc' = "exited"
            /\ exit_code' = Some(EXIT_MINUS_ONE)
            /\ UNCHANGED package
       ELSE /\ package' = found[1]
            /\ pc' = IF verb = "Build"
                     THEN build_entry(skip_dependencies)
                     ELSE test_entry(test, skip_rebuild, rebuild_dependencies)
            /\ UNCHANGED exit_code
    /\ UNCHANGED <<files, cfg_file_path, ws_str, init_io, ws, config, invocations>>
    /\ CliFrame

BuildDependencies ==
    /\ pc = "build_deps"
    /\ Issue(build_dependencies_command(config, ws, package), "build_package")

BuildPackage ==
    /\ pc = "build_package"
    /\ Issue(build_package_command(config, ws, package), "return")

TestBuildDependencies ==
    /\ pc = "test_deps"
    /\ Issue(build_dependencies_command(config, ws, package),
             after_test_dependencies(test, skip_rebuild))

TestBuildPackageAfterDependencies ==
    /\ pc = "test_deps_package"
    /\ Issue(build_package_command(config, ws, package),
             after_rebuild_entry(test, skip_rebuild))

TestBuildTarget ==
    /\ pc = "test_build_target"
    /\ Issue(ninja_build_target(ws, package, test[1]), after_run_entry(test))

TestBuildPackage ==
    /\ pc = "test_build_package"
    /\ Issue(build_package_command(config, ws, package), after_run_entry(test))

TestRunSingle ==
    /\ pc = "test_run_single"
    /\ Issue(run_single_ctest(ws, package, test[1]), "return")

TestRunAll ==
    /\ pc = "test_run_all"
    /\ Issue(run_tests_command(ws, package), "test_result")

TestResults ==
    /\ pc = "test_result"
    /\ Issue(test_results_command(ws, package), "return")

Next ==
    \/ ResolveWorkspaceAndLoadConfig
    \/ VerbInit
    \/ Dispatch
    \/ BuildDependencies
    \/ BuildPackage
    \/ TestBuildDependencies
    \/ TestBuildPackageAfterDependencies
    \/ TestBuildTarget
    \/ TestBuildPackage
    \/ TestRunSingle
    \/ TestRunAll
    \/ TestResults

Spec == Init /\ [][Next]_vars

-----------------------------------------------------------------------------
\* The staged builder on its own: every profile, every path through the stages

MixinPool == {"ninja", "mold"}

CmakeArgPool == {"-DA=1", "-DB=2"}

SeqsUpTo(S, n) == UNION {[1..k -> S] : k \in 0..n}

EventHandlerSets ==
    [desktop_notification : BOOLEAN, console_cohesion : BOOLEAN,
     summary : BOOLEAN, console_start_end : BOOLEAN]

Profiles ==
    [mixins : SeqsUpTo(MixinPool, MaxMixins),
     cmake_args : SeqsUpTo(CmakeArgPool, MaxCmakeArgs),
     build_type : BuildTypes,
     parallel_jobs : {None, Some(8)},
     event_handlers : EventHandlerSets,
     build_tests : BOOLEAN]

\* no run of main() is under way
MainNotRunning ==
    /\ verb = "Build"
    /\ cli = [workspace |-> None, package |-> None, force |-> FALSE]
    /\ env = [cwd |-> WS_DIR, manifest |-> FALSE, build |-> FALSE,
              files |-> [d \in Dirs |-> None]]
    /\ files = env.files
    /\ test = None
    /\ skip_dependencies = FALSE
    /\ skip_rebuild = FALSE
    /\ rebuild_dependencies = FALSE
    /\ pc = "start"
    /\ MainIdle

InitPipeline ==
    /\ MainNotRunning
    /\ search = SearchIdle
    /\ PipeIdle

PipeNew ==
    /\ stage = "none"
    /\ \E log \in BOOLEAN :
        /\ builder' = ColconInvocation_new("/ws", log)
        /\ inputs' = [inputs EXCEPT !.log = Some(log)]
    /\ stage' = "ColconInvocation"
    /\ UNCHANGED <<command, mainVars, findVars>>

PipeBuild ==
    /\ stage = "ColconInvocation"
    /\ \E base_setup \in [symlink : BOOLEAN, merge : BOOLEAN] :
        /\ builder' = ColconInvocation_build(builder, base_setup)
        /\ inputs' = [inputs EXCEPT !.base_setup = Some(base_setup)]
    /\ stage' = "BuildVerb"
    /\ UNCHANGED <<command, mainVars, findVars>>

PipeTest ==
    /\ stage = "ColconInvocation"
    /\ \E cfg \in [package : Packages, event_handlers : EventHandlerSets] :
        /\ builder' = ColconInvocation_test(builder, cfg)
        /\ inputs' = [inputs EXCEPT !.config = Some(cfg)]
    /\ stage' = "BasicVerb"
    /\ UNCHANGED <<command, mainVars, findVars>>

PipeTestResult ==
    /\ stage = "ColconInvocation"
    /\ \E cfg \in [package : Packages, verbose : BOOLEAN, all : BOOLEAN] :
        /\ builder' = ColconInvocation_test_result(builder, cfg)
        /\ inputs' = [inputs EXCEPT !.config = Some(cfg)]
    /\ stage' = "BasicVerb"
    /\ UNCHANGED <<command, mainVars, findVars>>

PipeConfigure ==
    /\ stage = "BuildVerb"
    /\ \E cfg \in Profiles :
        /\ builder' = BuildVerb_configure(builder, cfg)
        /\ inputs' = [inputs EXCEPT !.config = Some(cfg)]
    /\ stage' = "ConfiguredBuild"
    /\ UNCHANGED <<command, mainVars, findVars>>

PipeRunBuild ==
    /\ stage = "ConfiguredBuild"
    /\ \E what \in {DependenciesFor(p) : p \in Packages} \cup {ThisPackage(p) : p \in Packages} :
        /\ command' = Some(ConfiguredBuild_run(builder, what))
        /\ inputs' = [inputs EXCEPT !.what = Some(what)]
    /\ stage' = "ran"
    /\ UNCHANGED <<builder, mainVars, findVars>>

PipeRunBasic ==
    /\ stage = "BasicVerb"
    /\ command' = Some(BasicVerb_run(builder))
    /\ stage' = "ran"
    /\ UNCHANGED <<builder, inputs, mainVars, findVars>>

NextPipeline ==
    \/ PipeNew
    \/ PipeBuild
    \/ PipeTest
    \/ PipeTestResult
    \/ PipeConfigure
    \/ PipeRunBuild
    \/ PipeRunBasic

SpecPipeline == InitPipeline /\ [][NextPipeline]_vars

-----------------------------------------------------------------------------
\* Reading a command line

HasToken(args, t) == \E i \in 1..Len(args) : args[i] = t

EndsWith(args, suffix) ==
    /\ Len(args) >= Len(suffix)
    /\ SubSeq(args, Len(args) - Len(suffix) + 1, Len(args)) = suffix

RECURSIVE IsSubseq(_, _)
IsSubseq(a, b) ==
    IF a = <<>> THEN TRUE
    ELSE IF b = <<>> THEN FALSE
    ELSE IF Head(a) = Head(b) THEN IsSubseq(Tail(a), Tail(b))
    ELSE IsSubseq(a, Tail(b))

\* the colcon verb is the token after the two log-destination tokens
ColconVerb(c) ==
    IF c.program = "colcon" /\ Len(c.args) >= 3 THEN c.args[3] ELSE "none"

IsColconBuild(c) == ColconVerb(c) = "build"

CarriesDependencyFilter(c) ==
    HasToken(c.args, "--packages-up-to") \/ HasToken(c.args, "--packages-skip")

IsDependencyBuild(c, p) ==
    /\ IsColconBuild(c)
    /\ EndsWith(c.args, <<"--packages-up-to", p, "--packages-skip", p>>)

IsPackageBuild(c, p) ==
    /\ IsColconBuild(c)
    /\ EndsWith(c.args, <<"--packages-select", p>>)
    /\ ~CarriesDependencyFilter(c)

IsWholePackageBuild(c) == IsColconBuild(c) /\ HasToken(c.args, "--packages-select")

IsTargetBuild(c, t) == c.program = "ninja" /\ c.args[Len(c.args)] = Str(t)

IsSingleTestRun(c) == c.program = "ctest"

IsTestRun(c) == ColconVerb(c) = "test"

IsTestResult(c) == ColconVerb(c) = "test-result"

Kind(c) ==
    IF c.program = "ninja" THEN "target-build"
    ELSE IF c.program = "ctest" THEN "single-test-run"
    ELSE IF IsTestRun(c) THEN "test-run"
    ELSE IF IsTestResult(c) THEN "test-result"
    ELSE IF IsColconBuild(c) /\ CarriesDependencyFilter(c) THEN "dependency-build"
    ELSE IF IsColconBuild(c) THEN "package-build"
    ELSE "other"

Kinds == [i \in 1..Len(invocations) |-> Kind(invocations[i].cmd)]

ReturnedZero(o) == o.launched /\ o.code = Some(0)

ReturnedNonZero(o) == o.launched /\ o.code # None /\ o.code # Some(0)

AllReturnedZero == \A i \in 1..Len(invocations) : ReturnedZero(invocations[i].outcome)

Sign(b) == IF b THEN "+" ELSE "-"

\* the tokens a build invocation carries for a profile, as the profile reads
ProfileTokens(prof) ==
    (IF prof.parallel_jobs # None
     THEN <<"--parallel-workers", ToString(prof.parallel_jobs[1])>> ELSE <<>>)
    \o <<"summary" \o Sign(prof.event_handlers.summary),
         "console_start_end" \o Sign(prof.event_handlers.console_start_end),
         "console_cohesion" \o Sign(prof.event_handlers.console_cohesion),
         "desktop_notification" \o Sign(prof.event_handlers.desktop_notification)>>
    \o (IF prof.mixins # <<>> THEN <<"--mixin">> \o prof.mixins ELSE <<>>)
    \o <<"-DBUILD_TESTING=" \o (IF prof.build_tests THEN "ON" ELSE "OFF")>>
    \o prof.cmake_args
    \o <<"-DCMAKE_BUILD_TYPE=" \o prof.build_type>>

ConfiguredFrom(c, prof) == IsSubseq(ProfileTokens(prof), c.args)

-----------------------------------------------------------------------------
\* C1: fail-fast. An invocation that returned a non-zero exit code is the last one
\* the command issues, and the command's exit code is that code; in a Build that
\* builds dependencies, a non-zero dependency build means no package build.
C1_FailFast ==
    /\ \A i \in 1..Len(invocations) :
         ReturnedNonZero(invocations[i].outcome)
         => /\ i = Len(invocations)
            /\ pc = "exited"
            /\ exit_code = invocations[i].outcome.code
    /\ (/\ verb = "Build" /\ ~skip_dependencies
        /\ Len(invocations) >= 1
        /\ ReturnedNonZero(invocations[1].outcome))
       => \A i \in 1..Len(invocations) : ~IsWholePackageBuild(invocations[i].cmd)

C1_Witness ==
    /\ verb = "Build" /\ ~skip_dependencies
    /\ Len(invocations) = 1
    /\ IsDependencyBuild(invocations[1].cmd, package)
    /\ invocations[1].outcome = [launched |-> TRUE, code |-> Some(2)]
    /\ exit_code = Some(2)

\* C2: Build with dependencies whose dependency build returned zero ends after
\* exactly two invocations: the dependency build from the upstream profile with the
\* DependenciesFor selection, then the package build from the package profile with
\* the ThisPackage selection; the exit code is the second invocation's code.
C2_BuildWithDependencies ==
    (/\ verb = "Build" /\ ~skip_dependencies
     /\ Len(invocations) >= 1
     /\ ReturnedZero(invocations[1].outcome))
    => /\ IsDependencyBuild(invocations[1].cmd, package)
       /\ ConfiguredFrom(invocations[1].cmd, config.upstream)
       /\ Len(invocations) <= 2
       /\ pc = "exited" => Len(invocations) = 2
       /\ Len(invocations) = 2
          => /\ IsPackageBuild(invocations[2].cmd, package)
             /\ ConfiguredFrom(invocations[2].cmd, config.package)
             /\ pc = "exited"
             /\ (invocations[2].outcome.launched /\ invocations[2].outcome.code # None)
                => exit_code = invocations[2].outcome.code

C2_Witness ==
    /\ verb = "Build" /\ ~skip_dependencies
    /\ Len(invocations) = 2
    /\ ReturnedZero(invocations[1].outcome)
    /\ invocations[2].outcome = [launched |-> TRUE, code |-> Some(1)]
    /\ exit_code = Some(1)
    /\ config = Config_custom

\* the run has its workspace, configuration and package (it did not end in the
\* resolution steps, which C11 and C12 are about)
PackageResolved == package # ""

\* C3: Build with skip_dependencies issues exactly one invocation, a build selecting
\* the package with --packages-select P; nothing carries --packages-up-to or
\* --packages-skip; the exit code is that invocation's code.
C3_BuildSkipDependencies ==
    (verb = "Build" /\ skip_dependencies)
    => /\ Len(invocations) <= 1
       /\ (pc = "exited" /\ PackageResolved) => Len(invocations) = 1
       /\ \A i \in 1..Len(invocations) :
            /\ IsPackageBuild(invocations[i].cmd, package)
            /\ ~CarriesDependencyFilter(invocations[i].cmd)
            /\ pc = "exited"
            /\ (invocations[i].outcome.launched /\ invocations[i].outcome.code # None)
               => exit_code = invocations[i].outcome.code

C3_Witness ==
    /\ verb = "Build" /\ skip_dependencies
    /\ pc = "exited"
    /\ Len(invocations) = 1
    /\ invocations[1].outcome = [launched |-> TRUE, code |-> Some(0)]
    /\ exit_code = Some(0)

CountKind(k) == Cardinality({i \in 1..Len(invocations) : Kinds[i] = k})

C5_FullTestOrder ==
    /\ (/\ verb = "Test" /\ test = None /\ ~skip_rebuild
        /\ pc = "exited" /\ PackageResolved /\ AllReturnedZero)
       => /\ Kinds = (IF rebuild_dependencies THEN <<"dependency-build">> ELSE <<>>)
                     \o <<"package-build", "test-run", "test-result">>
          /\ \A i \in 1..Len(invocations) :
               Kinds[i] = "package-build"
               => /\ IsPackageBuild(invocations[i].cmd, package)
                  /\ ConfiguredFrom(invocations[i].cmd, config.package)
          /\ rebuild_dependencies => IsDependencyBuild(invocations[1].cmd, package)
    /\ \A i \in 1..Len(invocations) :
         IsTestResult(invocations[i].cmd)
         => /\ test = None
            /\ i > 1
            /\ IsTestRun(invocations[i-1].cmd)
            /\ ReturnedZero(invocations[i-1].outcome)

C5_Witness ==
    /\ verb = "Test" /\ test = None /\ ~skip_rebuild /\ rebuild_dependencies
    /\ pc = "exited" /\ AllReturnedZero
    /\ Len(invocations) = 4
    /\ IsTestResult(invocations[4].cmd)
    /\ exit_code = Some(0)

\* C10 as claimed: an invocation that could not be launched, or that ended without
\* an exit code, is the last one of the command and the command's exit code is -1.
C10_SentinelOnLaunchFailureOrSignal ==
    \A i \in 1..Len(invocations) :
        (~invocations[i].outcome.launched \/ invocations[i].outcome.code = None)
        => /\ i = Len(invocations)
           /\ pc = "exited"
           /\ exit_code = Some(-1)

\* the registered tests a single-test run executes
Selected(c) == {u \in TestNames : regex_find(c.regex, u)}

\* C9 as claimed: the single-test run for T selects T and no other test name.
C9_SelectsExactlyTheNamedTest ==
    \A i \in 1..Len(invocations) :
        (IsSingleTestRun(invocations[i].cmd) /\ invocations[i].outcome.launched)
        => /\ test # None
           /\ invocations[i].cmd.regex = <<"^">> \o test[1] \o <<"$">>
           /\ Selected(invocations[i].cmd) = {test[1]}

-----------------------------------------------------------------------------
\* Claims about the token sequences, under SpecPipeline

LogDestination(log) == IF log THEN "log" ELSE "/dev/null"

\* the tokens C6 lists, in its order, for the build configured so far
C6_ExpectedOrder(log, cfg) ==
    <<"--log-base", LogDestination(log)>>
    \o <<"build">>
    \o <<"--build-base", "build", "--install-base", "install">>
    \o (IF cfg.parallel_jobs # None
        THEN <<"--executor", "parallel", "--parallel-workers",
               ToString(cfg.parallel_jobs[1])>>
        ELSE <<>>)
    \o <<"summary" \o Sign(cfg.event_handlers.summary),
         "console_start_end" \o Sign(cfg.event_handlers.console_start_end),
         "console_cohesion" \o Sign(cfg.event_handlers.console_cohesion),
         "desktop_notification" \o Sign(cfg.event_handlers.desktop_notification)>>
    \o (IF cfg.mixins # <<>> THEN <<"--mixin">> \o cfg.mixins ELSE <<>>)
    \o <<"--cmake-args">>
    \o <<"-DBUILD_TESTING=" \o (IF cfg.build_tests THEN "ON" ELSE "OFF")>>
    \o cfg.cmake_args
    \o <<"-DCMAKE_BUILD_TYPE=" \o cfg.build_type>>

\* C6: after new -> build -> configure the token sequence contains, in this order,
\* the log destination, `build`, the output locations, the parallelism tokens (iff a
\* job count is set), the four handler tokens, --mixin and the mixins (iff there are
\* any), --cmake-args, the BUILD_TESTING definition, the extra arguments, and the
\* build-type definition, which is the last token.
C6_ConfiguredTokenOrder ==
    stage = "ConfiguredBuild"
    => LET cfg == inputs.config[1]
           a   == builder.args
       IN  /\ IsSubseq(C6_ExpectedOrder(inputs.log[1], cfg), a)
           /\ a[Len(a)] = "-DCMAKE_BUILD_TYPE=" \o cfg.build_type
           /\ HasToken(a, "--parallel-workers") <=> cfg.parallel_jobs # None
           /\ HasToken(a, "--executor") <=> cfg.parallel_jobs # None
           /\ HasToken(a, "--mixin") <=> cfg.mixins # <<>>

C6_Witness ==
    /\ stage = "ConfiguredBuild"
    /\ inputs.config[1].parallel_jobs = Some(8)
    /\ Len(inputs.config[1].mixins) = 2
    /\ Len(inputs.config[1].cmake_args) = 2
    /\ inputs.config[1].build_type = "RelWithDebInfo"
    /\ Len(builder.args) = 25

Positions(args, t) == {i \in 1..Len(args) : args[i] = t}

\* C7 as claimed: a configured build carries --cmake-args once, and the tokens
\* after it are exactly the BUILD_TESTING definition, the extra arguments and the
\* build-type definition, with no flag in between.
C7_CmakeArgsContiguous ==
    stage = "ConfiguredBuild"
    => LET cfg == inputs.config[1]
           a   == builder.args
       IN  /\ Cardinality(Positions(a, "--cmake-args")) = 1
           /\ \A i \in Positions(a, "--cmake-args") :
                SubSeq(a, i + 1, Len(a))
                = <<"-DBUILD_TESTING=" \o (IF cfg.build_tests THEN "ON" ELSE "OFF")>>
                  \o cfg.cmake_args
                  \o <<"-DCMAKE_BUILD_TYPE=" \o cfg.build_type>>

SelectionFlags == {"--packages-up-to", "--packages-skip", "--packages-select"}

NoSelectionFlag(args) == \A i \in 1..Len(args) : args[i] \notin SelectionFlags

\* C8: package-selection tokens are the last tokens of an executed command.
\* DependenciesFor(P) ends with --packages-up-to P --packages-skip P, ThisPackage(P)
\* ends with --packages-select P, the whole-suite test run ends with
\* --packages-select P; everything before them is the configured token sequence,
\* which holds no selection flag.
C8_SelectionTokensLast ==
    (stage = "ran" /\ command # None)
    => LET a == command[1].args
       IN  /\ builder.args[3] = "build"
              => LET what == inputs.what[1]
                     sel  == IF what.kind = "DependenciesFor"
                             THEN <<"--packages-up-to", what.package,
                                    "--packages-skip", what.package>>
                             ELSE <<"--packages-select", what.package>>
                     pre  == SubSeq(a, 1, Len(a) - Len(sel))
                 IN  /\ EndsWith(a, sel)
                     /\ NoSelectionFlag(pre)
                     /\ IsSubseq(C6_ExpectedOrder(inputs.log[1], inputs.config[1]), pre)
           /\ builder.args[3] = "test"
              => /\ EndsWith(a, <<"--packages-select", inputs.config[1].package>>)
                 /\ NoSelectionFlag(SubSeq(a, 1, Len(a) - 2))
                 /\ HasToken(SubSeq(a, 1, Len(a) - 2), "--ctest-args")

C8_Witness ==
    /\ stage = "ran"
    /\ command # None
    /\ builder.args[3] = "build"
    /\ inputs.what[1] = DependenciesFor("foo")
    /\ EndsWith(command[1].args, <<"--packages-up-to", "foo", "--packages-skip", "foo">>)
    /\ Len(inputs.config[1].mixins) = 2

-----------------------------------------------------------------------------
\* Claims about the resolution steps and the configuration file, under Spec

IsPrefix(a, b) == Len(a) <= Len(b) /\ SubSeq(b, 1, Len(a)) = a

\* no directory from the current directory up to the root holds a package.xml
NoManifestUpward == ~(env.manifest /\ IsPrefix(PACKAGE_DIR, env.cwd))

StepPositions ==
    {"build_deps", "build_package", "test_deps", "test_deps_package",
     "test_build_target", "test_build_package", "test_run_single", "test_run_all",
     "test_result"}

ExitedNonZero == pc = "exited" /\ exit_code # None /\ exit_code # Some(0)

InitialFileAtWorkspace ==
    IF cfg_file_path = None THEN None ELSE env.files[cfg_file_path[1]]

\* C12: a configuration file at the workspace root that cannot be read or parsed
\* ends the command, whatever the verb, with a non-zero exit code before any
\* invocation; without a file the default profile pair is used and the command goes on.
C12_ConfigLoad ==
    pc # "start"
    => /\ (/\ InitialFileAtWorkspace # None
           /\ \/ ~InitialFileAtWorkspace[1].readable
              \/ InitialFileAtWorkspace[1].data = GARBAGE_TEXT)
          => /\ ExitedNonZero
             /\ invocations = <<>>
             /\ init_io = "none"
       /\ InitialFileAtWorkspace = None
          => /\ config = Config_default
             /\ (verb # "Init" /\ cli.package # None /\ pc # "main") => PackageResolved

C12_Witness ==
    /\ verb = "Test"
    /\ InitialFileAtWorkspace = Some(ConfigFile(TRUE, GARBAGE_TEXT))
    /\ pc = "exited"
    /\ exit_code = Some(-1)
    /\ invocations = <<>>

C12_WitnessAbsent ==
    /\ verb = "Test"
    /\ ws_str = "/ws"
    /\ InitialFileAtWorkspace = None
    /\ Len(invocations) = 2

\* C13: init without force, the workspace's configuration file existing, leaves
\* every file as it was, ends with a non-zero exit code and issues no invocation.
C13_InitRefusesToOverwrite ==
    (verb = "Init" /\ ~cli.force /\ InitialFileAtWorkspace # None)
    => /\ files = env.files
       /\ invocations = <<>>
       /\ pc = "exited" => ExitedNonZero

C13_Witness ==
    /\ verb = "Init" /\ ~cli.force
    /\ InitialFileAtWorkspace = Some(ConfigFile(TRUE, toml_to_string_pretty(Config_custom)))
    /\ config = Config_custom
    /\ pc = "exited"
    /\ exit_code = Some(-1)
    /\ files = env.files

\* C14 as claimed: init with force, the file existing with whatever (readable)
\* content, ends with the file holding the serialized default pair and exit code 0,
\* unless File::create or write_all failed.
C14_ForcedInitOverwrites ==
    (/\ verb = "Init" /\ cli.force
     /\ InitialFileAtWorkspace # None
     /\ InitialFileAtWorkspace[1].readable
     /\ pc = "exited"
     /\ init_io \notin {"create_err", "write_err"})
    => /\ files[cfg_file_path[1]] = Some(ConfigFile(TRUE, toml_to_string_pretty(Config_default)))
       /\ exit_code = Some(0)

\* C15: after a successful init, loading the configuration of the same workspace
\* gives a pair equal to the default pair in every field of both profiles.
C15_InitLoadRoundTrip ==
    (verb = "Init" /\ pc = "exited" /\ exit_code = Some(0))
    => LET loaded == load_config(files, cfg_file_path) IN
       /\ loaded.kind = "loaded"
       /\ \A prof \in {"upstream", "package"} :
            LET got  == IF prof = "upstream" THEN loaded.config.upstream
                        ELSE loaded.config.package
                want == IF prof = "upstream" THEN BuildConfiguration_upstream
                        ELSE BuildConfiguration_active
            IN  /\ got.mixins = want.mixins
                /\ got.cmake_args = want.cmake_args
                /\ got.build_type = want.build_type
                /\ got.parallel_jobs = want.parallel_jobs
                /\ got.event_handlers = want.event_handlers
                /\ got.build_tests = want.build_tests

C15_Witness ==
    /\ verb = "Init"
    /\ pc = "exited"
    /\ exit_code = Some(0)
    /\ init_io = "ok"
    /\ InitialFileAtWorkspace = None
    /\ files[cfg_file_path[1]] # None

\* C16: a Build or Test command leaves every configuration file as it was at the
\* start, present or absent; only init creates or changes one.
C16_LoadWritesNothing ==
    /\ verb \in {"Build", "Test"} => files = env.files
    /\ files # env.files => (verb = "Init" /\ init_io \in {"ok", "write_err"})

C16_Witness ==
    /\ verb = "Build"
    /\ pc = "exited"
    /\ Len(invocations) = 2
    /\ InitialFileAtWorkspace = None
    /\ config = Config_default
    /\ files = env.files

\* C18 as claimed: every invocation gets the absolute canonicalized workspace
\* directory, as its working directory (colcon) and as the prefix of the package
\* build directory (ninja, ctest).
C18_CanonicalWorkspaceHandedOn ==
    \A i \in 1..Len(invocations) :
        LET c == invocations[i].cmd IN
        /\ c.program = "colcon" => c.cwd = Some(ws_str)
        /\ c.program \in {"ninja", "ctest"} => c.args[2] = ws_str \o "/build/" \o package

-----------------------------------------------------------------------------
\* find_upwards step by step: one action per pass through the while loop, over
\* every marker table of the directory tree and every start directory

\* a start that does not exist
MissingStart == AbsPath(<<"ws", "gone">>)

FindStarts ==
    {None, Some(MissingStart), Some(AbsPath(SymlinkAt))} \cup {Some(AbsPath(d)) : d \in Dirs}

\* the marker lists of the two call sites
FindMarkerLists == {PACKAGE_MARKERS, WORKSPACE_MARKERS}

MarkerSet(markers) == {markers[i] : i \in 1..Len(markers)}

MarkerTables(markers) == [Dirs \X MarkerSet(markers) -> MarkerStatus]

InitFind ==
    /\ MainNotRunning
    /\ PipeIdle
    /\ \E markers \in FindMarkerLists :
       \E table \in MarkerTables(markers) :
       \E start \in FindStarts :
          search = [pc |-> "begin", start |-> start, table |-> table, markers |-> markers,
                    cwd |-> None, result |-> None, iters |-> 0]

FindFrame == UNCHANGED <<mainVars, pipeVars>>

\* line 404: env::current_dir().and_then(|p| p.canonicalize()).ok()
FindCanonicalize ==
    /\ search.pc = "begin"
    /\ search' = [search EXCEPT !.pc = "loop",
                                !.cwd = IF search.start = None THEN None
                                        ELSE canonicalize(search.start[1], <<>>)]
    /\ FindFrame

\* lines 405-408: the directory holds a marker, return it
FindReturn ==
    /\ search.pc = "loop"
    /\ search.cwd # None
    /\ contains_marker(search.table, search.cwd[1], search.markers)
    /\ search' = [search EXCEPT !.pc = "done", !.result = search.cwd,
                                !.iters = search.iters + 1]
    /\ FindFrame

\* lines 405-409: no marker here, go on with the parent
FindAscend ==
    /\ search.pc = "loop"
    /\ search.cwd # None
    /\ ~contains_marker(search.table, search.cwd[1], search.markers)
    /\ search' = [search EXCEPT !.cwd = parent(search.cwd[1]),
                                !.iters = search.iters + 1]
    /\ FindFrame

\* lines 405, 411: cwd is None, the loop ends and None is returned
FindExhausted ==
    /\ search.pc = "loop"
    /\ search.cwd = None
    /\ search' = [search EXCEPT !.pc = "done", !.result = None]
    /\ FindFrame

NextFind ==
    \/ FindCanonicalize
    \/ FindReturn
    \/ FindAscend
    \/ FindExhausted

\* the loop is the only thing running and is not suspended
SpecFind == InitFind /\ [][NextFind]_vars /\ WF_vars(NextFind)

-----------------------------------------------------------------------------
\* Claims about the upward search, under SpecFind

Searching == search.pc # "idle"

\* the canonical start directory, None when it cannot be had
CanonicalStart ==
    IF search.start = None THEN None ELSE canonicalize(search.start[1], <<>>)

Ancestors(d) == {SubSeq(d, 1, k) : k \in 0..Len(d)}

\* d holds a marker: some marker's existence test says yes (an error is not a yes)
Marked(d) == \E m \in MarkerSet(search.markers) : search.table[<<d, m>>] = "present"

MarkedAncestors ==
    IF CanonicalStart = None THEN {}
    ELSE {d \in Ancestors(CanonicalStart[1]) : Marked(d)}

NearestMarked ==
    IF MarkedAncestors = {} THEN None
    ELSE Some(CHOOSE d \in MarkedAncestors : \A e \in MarkedAncestors : Len(e) <= Len(d))

\* C17: find_upwards returns the nearest directory from the canonicalized start up
\* to the root that holds a marker, None exactly when there is none; a marker whose
\* existence test fails counts as absent; the result is what the recursive
\* definition used by main gives.
C17_FindUpwardsNearest ==
    (Searching /\ search.pc = "done")
    => /\ search.result = NearestMarked
       /\ search.result = None <=> MarkedAncestors = {}
       /\ search.result = find_upwards(search.table, search.start, search.markers)

C17_Witness ==
    /\ Searching /\ search.pc = "done"
    /\ search.start = Some(AbsPath(<<"ws", "src", "foo">>))
    /\ search.markers = WORKSPACE_MARKERS
    /\ search.table[<<(<<"ws", "src", "foo">>), "build">>] = "error"
    /\ search.table[<<(<<"ws", "src">>), COLB_CONFIG_FILENAME>>] = "error"
    /\ MarkedAncestors = {<<"ws">>}
    /\ search.result = Some(<<"ws">>)

C17_WitnessNone ==
    /\ Searching /\ search.pc = "done"
    /\ search.start = Some(AbsPath(SymlinkAt))
    /\ search.markers = PACKAGE_MARKERS
    /\ \E d \in Dirs : search.table[<<d, "package.xml">>] = "error"
    /\ search.result = None
    /\ search.iters = 2

\* the depth of the canonical start directory
StartDepth == IF CanonicalStart = None THEN 0 ELSE Len(CanonicalStart[1])

IterationStep ==
    (Searching /\ search.pc = "loop")
    => \/ search'.pc = "done" /\ search.cwd # None /\ search'.result = search.cwd
       \/ search'.pc = "done" /\ search.cwd = None /\ search'.result = None
       \/ /\ search'.pc = "loop"
          /\ search.cwd # None
          /\ search.cwd[1] # <<>> => /\ search'.cwd # None
                                     /\ Len(search'.cwd[1]) = Len(search.cwd[1]) - 1
                                     /\ IsPrefix(search'.cwd[1], search.cwd[1])
          /\ search.cwd[1] = <<>> => search'.cwd = None

IterationBound ==
    Searching
    => /\ search.iters <= StartDepth + 1
       /\ CanonicalStart = None => search.iters = 0
       /\ (search.pc = "loop" /\ search.cwd # None)
          => search.iters + Len(search.cwd[1]) = StartDepth

\* C19: the upward search terminates: every pass through the loop returns or moves
\* to the strict parent, None is returned once there is no directory left, and the
\* passes number at most the depth of the start directory plus one.
C19_SearchTerminates ==
    /\ [][IterationStep]_vars
    /\ []IterationBound
    /\ (search.pc = "begin") ~> (search.pc = "done")

C19_Witness ==
    /\ Searching /\ search.pc = "done"
    /\ search.start = Some(AbsPath(<<"ws", "src", "foo">>))
    /\ search.result = None
    /\ search.iters = 4

-----------------------------------------------------------------------------
\* Claim about the event-handler tokens, under SpecPipeline

\* the four handler tokens of a setting, in the order colcon is given them
HandlerTokens(eh) ==
    <<"summary" \o (IF eh.summary THEN "+" ELSE "-"),
      "console_start_end" \o (IF eh.console_start_end THEN "+" ELSE "-"),
      "console_cohesion" \o (IF eh.console_cohesion THEN "+" ELSE "-"),
      "desktop_notification" \o (IF eh.desktop_notification THEN "+" ELSE "-")>>

EventHandlerFlagAt(a) == {i \in 1..Len(a) : a[i] = "--event-handlers"}

\* C20 as claimed: an executed configured build or whole-suite test run holds the
\* token --event-handlers exactly once, and the four handler tokens of its setting
\* follow it immediately, in order.
C20_EventHandlerFlagOnce ==
    (stage = "ran" /\ command # None /\ builder.args[3] \in {"build", "test"})
    => LET a  == command[1].args
           eh == inputs.config[1].event_handlers
       IN  /\ Cardinality(EventHandlerFlagAt(a)) = 1
           /\ \A i \in EventHandlerFlagAt(a) :
                /\ i + 4 <= Len(a)
                /\ SubSeq(a, i + 1, i + 4) = HandlerTokens(eh)

\* what does hold: the configured build has the flag once
C20_ConfiguredBuildFlagOnce ==
    (stage = "ran" /\ command # None /\ builder.args[3] = "build")
    => LET a  == command[1].args
           eh == inputs.config[1].event_handlers
       IN  /\ Cardinality(EventHandlerFlagAt(a)) = 1
           /\ \A i \in EventHandlerFlagAt(a) :
                /\ i + 4 <= Len(a)
                /\ SubSeq(a, i + 1, i + 4) = HandlerTokens(eh)

-----------------------------------------------------------------------------
\* Claim about Test with skip_rebuild, under Spec

IsAnyBuild(c) == c.program = "ninja" \/ IsColconBuild(c)

BuildPositions ==
    {"build_deps", "build_package", "test_deps", "test_deps_package",
     "test_build_target", "test_build_package"}

\* C21: Test with skip_rebuild=true issues no build invocation of any kind
\* (dependency build, whole-package build, single-target build), whatever
\* rebuild_dependencies is and with or without a test name; its first invocation
\* is the test run: ctest for the named test, colcon test for the whole suite.
C21_SkipRebuildBuildsNothing ==
    (verb = "Test" /\ skip_rebuild)
    => /\ \A i \in 1..Len(invocations) : ~IsAnyBuild(invocations[i].cmd)
       /\ pc \notin BuildPositions
       /\ invocations # <<>>
          => IF test # None
             THEN /\ IsSingleTestRun(invocations[1].cmd)
                  /\ invocations[1].cmd.regex = <<"^">> \o test[1] \o <<"$">>
             ELSE IsTestRun(invocations[1].cmd)
       /\ (PackageResolved /\ pc = "exited") => invocations # <<>>

C21_Witness ==
    /\ verb = "Test" /\ skip_rebuild /\ rebuild_dependencies
    /\ test # None
    /\ pc = "exited"
    /\ Len(invocations) = 1
    /\ IsSingleTestRun(invocations[1].cmd)
    /\ ReturnedZero(invocations[1].outcome)
    /\ exit_code = Some(0)

C21_WitnessSuite ==
    /\ verb = "Test" /\ skip_rebuild /\ rebuild_dependencies
    /\ test = None
    /\ pc = "exited"
    /\ Len(invocations) = 2
    /\ IsTestRun(invocations[1].cmd)
    /\ IsTestResult(invocations[2].cmd)

====
